---- MODULE Spec2Model ----
(***************************************************************************)
(* DataFrameMerger (src/DataMerger.py): one instance, its fields, and its  *)
(* public operations set_file_path (load), preview_file (preview),         *)
(* set_merge_columns (bind) and merge_data (merge).                        *)
(*                                                                         *)
(* Text is a sequence of one-character strings; a cell of a table is a     *)
(* tagged record (text, integer, or NaN); a row is a function from column  *)
(* names to cells; a table is [columns, rows].                             *)
(***************************************************************************)
EXTENDS Integers, Sequences, FiniteSets

VARIABLES
    df,                     \* self.df
    external_df,            \* self.external_df
    file_path,              \* self.file_path
    df_merge_col,           \* self.df_merge_col
    external_merge_col,     \* self.external_merge_col
    multiple_id_delimiter,  \* self.multiple_id_delimiter
    op,                     \* the operation called last
    args,                   \* its arguments
    raised,                 \* the exception it raised (NoError if it returned)
    prompts,                \* calls of input() it made
    response,               \* what input() returned (NoneT if not called)
    expanded_df,            \* merge_data's local expanded_df (NoneT if not computed)
    joins,                  \* calls of pd.merge it made
    merged_df,              \* the table it returned (NoneT if none)
    shown,                  \* rows preview_file displayed
    bound,                  \* a call of set_merge_columns has succeeded
    uses,                   \* merge calls that used the stored binding since it was stored
    reloaded                \* a load succeeded since the binding was stored

vars == <<df, external_df, file_path, df_merge_col, external_merge_col,
          multiple_id_delimiter, op, args, raised, prompts, response,
          expanded_df, joins, merged_df, shown, bound, uses, reloaded>>

state == <<df, external_df, file_path, df_merge_col, external_merge_col,
           multiple_id_delimiter>>

-----------------------------------------------------------------------------
(* Values *)

\* Python's None in a field that holds a column name or a path name.
None == "None"

\* Python's None in a field that holds a table, a delimiter or a response.
NoneT == [t |-> "None"]

Txt(s) == [t |-> "str", v |-> s]

Num(n) == [t |-> "int", n |-> n]

NaN == [t |-> "nan"]

Table(columns, rows) == [columns |-> columns, rows |-> rows]

ColSet(table) == {table.columns[i] : i \in DOMAIN table.columns}

Exc(kind, table, column) == [kind |-> kind, table |-> table, column |-> column]

NoError == Exc("none", None, None)

Min(S) == CHOOSE x \in S : \A y \in S : x <= y

-----------------------------------------------------------------------------
(* Text: str.strip, str.lower, str.split, str() *)

Whitespace == {" ", "\t", "\n", "\r", "\f"}

Upper == [c \in {"Y", "E", "S", "N", "O", "C", "V", "T", "X", "L"} |->
            CASE c = "Y" -> "y" [] c = "E" -> "e" [] c = "S" -> "s"
              [] c = "N" -> "n" [] c = "O" -> "o" [] c = "C" -> "c"
              [] c = "V" -> "v" [] c = "T" -> "t" [] c = "X" -> "x"
              [] c = "L" -> "l"]

\* str.lower()
Lower(s) == [i \in DOMAIN s |-> IF s[i] \in DOMAIN Upper THEN Upper[s[i]] ELSE s[i]]

RECURSIVE LStrip(_)
LStrip(s) ==
    IF s # <<>> /\ Head(s) \in Whitespace THEN LStrip(Tail(s)) ELSE s

RECURSIVE RStrip(_)
RStrip(s) ==
    IF s # <<>> /\ s[Len(s)] \in Whitespace
    THEN RStrip(SubSeq(s, 1, Len(s) - 1)) ELSE s

\* str.strip()
Strip(s) == RStrip(LStrip(s))

StartsWithAt(s, d, i) ==
    /\ i + Len(d) - 1 <= Len(s)
    /\ SubSeq(s, i, i + Len(d) - 1) = d

\* str.split(d) for a non-empty d: cut at the leftmost occurrence, go on after it
RECURSIVE Split(_, _)
Split(s, d) ==
    LET hits == {i \in 1..Len(s) : StartsWithAt(s, d, i)}
    IN  IF hits = {} THEN <<s>>
        ELSE <<SubSeq(s, 1, Min(hits) - 1)>>
               \o Split(SubSeq(s, Min(hits) + Len(d), Len(s)), d)

Digit == [n \in 0..9 |->
            CASE n = 0 -> "0" [] n = 1 -> "1" [] n = 2 -> "2" [] n = 3 -> "3"
              [] n = 4 -> "4" [] n = 5 -> "5" [] n = 6 -> "6" [] n = 7 -> "7"
              [] n = 8 -> "8" [] n = 9 -> "9"]

RECURSIVE Decimal(_)
Decimal(n) == IF n < 10 THEN <<Digit[n]>> ELSE Decimal(n \div 10) \o <<Digit[n % 10]>>

\* astype(str) on one cell
Str(cell) ==
    CASE cell.t = "str" -> cell.v
      [] cell.t = "int" -> Decimal(cell.n)
      [] cell.t = "nan" -> <<"n", "a", "n">>

-----------------------------------------------------------------------------
(* The tables and the files of the main specification *)

T(c) == Txt(<<c>>)

Row1(a) == [id |-> a]

Row4(a, b, c, d) == [id |-> a, name |-> b, score |-> c, extra |-> d]

Row3(a, b, c) == [id |-> a, name |-> b, score |-> c]

RowG(a, b) == [gene |-> a, extra |-> b]

DfPlain == Table(<<"id">>, <<Row1(T("1")), Row1(T("2")), Row1(T("3"))>>)

DfFull ==
    Table(<<"id", "name", "score", "extra">>,
          <<Row4(T("1"), T("x"), T("p"), T("e")), Row4(T("4"), T("z"), T("r"), T("f"))>>)

Scores ==
    Table(<<"id", "name", "score">>,
          <<Row3(T("2"), T("x"), T("p")),
            Row3(Txt(<<"3", ",", " ", "4">>), T("y"), T("q")),
            Row3(Txt(<<"4", ",", ",", "1">>), T("z"), T("r"))>>)

Genes == Table(<<"gene", "extra">>, <<RowG(T("1"), T("e")), RowG(NaN, T("f"))>>)

Ids == Table(<<"id">>, <<Row1(T("3")), Row1(T("3"))>>)

Path(root, ext) == [root |-> root, ext |-> ext]

ScoresCsv == Path("scores", <<".", "c", "s", "v">>)

GenesTsv == Path("genes", <<".", "T", "S", "V">>)

IdsXlsx == Path("ids", <<".", "x", "l", "s", "x">>)

NotesTxt == Path("notes", <<".", "t", "x", "t">>)

GoneCsv == Path("gone", <<".", "c", "s", "v">>)

Paths == {ScoresCsv, GenesTsv, IdsXlsx, NotesTxt, GoneCsv}

\* the files on disk
Disk == {ScoresCsv, GenesTsv, IdsXlsx, NotesTxt}

FileTable(path) ==
    CASE path = ScoresCsv -> Scores
      [] path = GenesTsv -> Genes
      [] path = IdsXlsx -> Ids
      [] OTHER -> Table(<<"id">>, <<>>)

ColNames == {"id", "gene", "extra"}

Delimiters == {NoneT, Txt(<<",">>), Txt(<<>>)}

Hows == {"default", "left", "right", "inner", "outer"}

Responses ==
    {Txt(<<"y">>), Txt(<<"Y", "E", "S">>), Txt(<<" ", "y", "e", "s", " ">>),
     Txt(<<"n">>), Txt(<<>>), Txt(<<"y", "e">>)}

Previews == {1, 5}

-----------------------------------------------------------------------------
(* What a call leaves behind for the caller to see *)

Observe(o, a, e, p, r, x, j, m, n) ==
    /\ op' = o
    /\ args' = a
    /\ raised' = e
    /\ prompts' = p
    /\ response' = r
    /\ expanded_df' = x
    /\ joins' = j
    /\ merged_df' = m
    /\ shown' = n

Raise(o, a, e) == Observe(o, a, e, 0, NoneT, NoneT, 0, NoneT, 0)

Return(o, a) == Observe(o, a, NoError, 0, NoneT, NoneT, 0, NoneT, 0)

-----------------------------------------------------------------------------
(* __init__ *)

Init ==
    /\ df \in {DfPlain, DfFull}
    /\ external_df = NoneT
    /\ file_path = NoneT
    /\ df_merge_col = None
    /\ external_merge_col = None
    /\ multiple_id_delimiter = NoneT
    /\ op = "init"
    /\ args = NoneT
    /\ raised = NoError
    /\ prompts = 0
    /\ response = NoneT
    /\ expanded_df = NoneT
    /\ joins = 0
    /\ merged_df = NoneT
    /\ shown = 0
    /\ bound = FALSE
    /\ uses = 0
    /\ reloaded = FALSE

-----------------------------------------------------------------------------
(* set_file_path and _read_file *)

isfile(path) == path \in Disk

\* the decoders: the table a file holds
read_csv(path, sep) == FileTable(path)

read_excel(path) == FileTable(path)

Csv == <<".", "c", "s", "v">>

Tsv == <<".", "t", "s", "v">>

Xls == <<".", "x", "l", "s">>

Xlsx == <<".", "x", "l", "s", "x">>

\* _read_file's result for self.file_path = path: the table, or NoneT for an
\* unsupported extension
_read_file(path) ==
    LET ext == Lower(path.ext)
    IN  IF ext = Csv THEN read_csv(path, ",")
        ELSE IF ext = Tsv THEN read_csv(path, "\t")
        ELSE IF ext \in {Xls, Xlsx} THEN read_excel(path)
        ELSE NoneT

\* what a failed read leaves in self.external_df
\* (variant: a failed read drops the table)
FailedReadClears(old) == NoneT

FailedRead(old) == old

set_file_path(path) ==
    IF ~isfile(path)
    THEN /\ Raise("load", [path |-> path], Exc("FileNotFound", None, None))
         /\ UNCHANGED <<state, bound, uses, reloaded>>
    ELSE /\ file_path' = path
         /\ IF _read_file(path) = NoneT
            THEN /\ Raise("load", [path |-> path], Exc("UnsupportedFormat", None, None))
                 /\ external_df' = FailedRead(external_df)
                 /\ UNCHANGED reloaded
            ELSE /\ Return("load", [path |-> path])
                 /\ external_df' = _read_file(path)
                 /\ reloaded' = TRUE
         /\ UNCHANGED <<df, df_merge_col, external_merge_col, multiple_id_delimiter, bound, uses>>

-----------------------------------------------------------------------------
(* preview_file *)

preview_file(n) ==
    /\ IF external_df = NoneT
       THEN Raise("preview", [n |-> n], Exc("NoTableLoaded", None, None))
       ELSE Observe("preview", [n |-> n], NoError, 0, NoneT, NoneT, 0, NoneT,
                    IF n < Len(external_df.rows) THEN n ELSE Len(external_df.rows))
    /\ UNCHANGED <<state, bound, uses, reloaded>>

-----------------------------------------------------------------------------
(* set_merge_columns *)

\* the exception set_merge_columns raises, NoError if it stores the binding
\* (variant: only the main table is tested)
BindCheckSkipsExternal(df_col, external_col) ==
    IF df_col \notin ColSet(df)
    THEN Exc("ColumnNotFound", "current", df_col)
    ELSE NoError

BindCheck(df_col, external_col) ==
    IF df_col \notin ColSet(df)
    THEN Exc("ColumnNotFound", "current", df_col)
    ELSE IF external_df = NoneT
    THEN Exc("AttributeError", None, None)
    ELSE IF external_col \notin ColSet(external_df)
    THEN Exc("ColumnNotFound", "external", external_col)
    ELSE NoError

\* the delimiter a successful bind stores
\* (variant: a bind without a delimiter keeps the old one)
BindKeepsDelimiter(delimiter) ==
    IF delimiter = NoneT THEN multiple_id_delimiter ELSE delimiter

BindDelimiter(delimiter) == delimiter

set_merge_columns(df_col, external_col, delimiter) ==
    LET a == [df_col |-> df_col, external_col |-> external_col, delimiter |-> delimiter]
    IN  /\ UNCHANGED <<df, external_df, file_path>>
        /\ IF BindCheck(df_col, external_col) # NoError
           THEN /\ Raise("bind", a, BindCheck(df_col, external_col))
                /\ UNCHANGED <<df_merge_col, external_merge_col, multiple_id_delimiter,
                               bound, uses, reloaded>>
           ELSE /\ Return("bind", a)
                /\ df_merge_col' = df_col
                /\ external_merge_col' = external_col
                /\ multiple_id_delimiter' = BindDelimiter(delimiter)
                /\ bound' = TRUE
                /\ uses' = 0
                /\ reloaded' = FALSE

-----------------------------------------------------------------------------
(* _check_for_double_merge *)

\* line 201: every column of the external table, the merge column aside, is a
\* column of the main table
\* (variant: equality in place of containment)
GuardFiresOnEqualSets == ColSet(external_df) \ {external_merge_col} = ColSet(df)

GuardFires == (ColSet(external_df) \ {external_merge_col}) \subseteq ColSet(df)

\* lines 204-206: the answer, stripped and lowercased, is "y" or "yes"
\* (variant: any answer that starts with "y")
AffirmativeByFirstLetter(r) == Lower(Strip(r.v)) # <<>> /\ Lower(Strip(r.v))[1] = "y"

Affirmative(r) == Lower(Strip(r.v)) \in {<<"y">>, <<"y", "e", "s">>}

-----------------------------------------------------------------------------
(* _expand_multiple_ids *)

\* lines 181-185 on one row: split the key, one row per piece, the piece stripped
\* (variant: line 185 left out)
ExpandRowUnstripped(row, col, d) ==
    LET pieces == Split(Str(row[col]), d)
    IN  [k \in 1..Len(pieces) |-> [row EXCEPT ![col] = Txt(pieces[k])]]

ExpandRow(row, col, d) ==
    LET pieces == Split(Str(row[col]), d)
    IN  [k \in 1..Len(pieces) |-> [row EXCEPT ![col] = Txt(Strip(pieces[k]))]]

RECURSIVE Explode(_, _, _)
Explode(rows, col, d) ==
    IF rows = <<>> THEN <<>>
    ELSE ExpandRow(Head(rows), col, d) \o Explode(Tail(rows), col, d)

\* [raised, table]: the exception, or the exploded copy
_expand_multiple_ids(table, col, delimiter) ==
    IF col \notin ColSet(table)
    THEN [raised |-> Exc("KeyError", "external", col), table |-> NoneT]
    ELSE IF delimiter.v = <<>> /\ table.rows # <<>>
    THEN [raised |-> Exc("EmptySeparator", None, None), table |-> NoneT]
    ELSE [raised |-> NoError,
          table |-> Table(table.columns, Explode(table.rows, col, delimiter.v))]

-----------------------------------------------------------------------------
(* pd.merge(left, right, left_on, right_on, how): the rows of the result, each a
   pair of the left row and the right row it was made of, NoRow for the side
   whose fields are all null *)

NoRow == [null |-> TRUE]

Pair(l, r) == [l |-> l, r |-> r]

Chars ==
    <<"\t", "\n", "\f", "\r", " ", ",", "0", "1", "2", "3", "4", "5", "6", "7",
      "8", "9", "a", "e", "f", "n", "p", "q", "r", "x", "y", "z">>

Code(c) == CHOOSE i \in DOMAIN Chars : Chars[i] = c

RECURSIVE LexLess(_, _)
LexLess(a, b) ==
    IF b = <<>> THEN FALSE
    ELSE IF a = <<>> THEN TRUE
    ELSE IF Head(a) = Head(b) THEN LexLess(Tail(a), Tail(b))
    ELSE Code(Head(a)) < Code(Head(b))

\* the order of keys in an outer join: lexicographic, NaN last
KeyLess(a, b) ==
    IF a.t = "nan" THEN FALSE
    ELSE IF b.t = "nan" THEN TRUE
    ELSE LexLess(Str(a), Str(b))

RECURSIVE SortKeys(_)
SortKeys(S) ==
    IF S = {} THEN <<>>
    ELSE LET m == CHOOSE x \in S : \A y \in S \ {x} : KeyLess(x, y)
         IN  <<m>> \o SortKeys(S \ {m})

RECURSIVE Concat(_)
Concat(ss) == IF ss = <<>> THEN <<>> ELSE Head(ss) \o Concat(Tail(ss))

Matching(rows, col, key) == SelectSeq(rows, LAMBDA r : r[col] = key)

KeysOf(rows, col) == {rows[i][col] : i \in DOMAIN rows}

\* one left row against the right rows
LeftBlock(l, right, left_on, right_on, keep) ==
    LET m == Matching(right, right_on, l[left_on])
    IN  IF m = <<>>
        THEN (IF keep THEN <<Pair(l, NoRow)>> ELSE <<>>)
        ELSE [j \in DOMAIN m |-> Pair(l, m[j])]

\* one right row against the left rows
RightBlock(r, left, left_on, right_on) ==
    LET m == Matching(left, left_on, r[right_on])
    IN  IF m = <<>> THEN <<Pair(NoRow, r)>> ELSE [i \in DOMAIN m |-> Pair(m[i], r)]

\* the rows of one key in an outer join
KeyBlock(key, left, right, left_on, right_on) ==
    LET ls == Matching(left, left_on, key)
    IN  IF ls = <<>>
        THEN [j \in DOMAIN Matching(right, right_on, key) |->
                 Pair(NoRow, Matching(right, right_on, key)[j])]
        ELSE Concat([i \in DOMAIN ls |-> LeftBlock(ls[i], right, left_on, right_on, TRUE)])

\* (variant: every kind joins as 'inner')
JoinRowsInnerOnly(left, right, left_on, right_on, how) ==
    Concat([i \in DOMAIN left |-> LeftBlock(left[i], right, left_on, right_on, FALSE)])

JoinRows(left, right, left_on, right_on, how) ==
    CASE how = "left" ->
           Concat([i \in DOMAIN left |-> LeftBlock(left[i], right, left_on, right_on, TRUE)])
      [] how = "inner" ->
           Concat([i \in DOMAIN left |-> LeftBlock(left[i], right, left_on, right_on, FALSE)])
      [] how = "right" ->
           Concat([j \in DOMAIN right |-> RightBlock(right[j], left, left_on, right_on)])
      [] how = "outer" ->
           LET keys == SortKeys(KeysOf(left, left_on) \cup KeysOf(right, right_on))
           IN  Concat([k \in DOMAIN keys |->
                          KeyBlock(keys[k], left, right, left_on, right_on)])

\* [raised, table]: KeyError for a key column the table lacks, else the result
pd_merge(left, right, left_on, right_on, how) ==
    IF left_on \notin ColSet(left)
    THEN [raised |-> Exc("KeyError", "current", left_on), table |-> NoneT]
    ELSE IF right_on \notin ColSet(right)
    THEN [raised |-> Exc("KeyError", "external", right_on), table |-> NoneT]
    ELSE [raised |-> NoError,
          table |-> [rows |-> JoinRows(left.rows, right.rows, left_on, right_on, how)]]

-----------------------------------------------------------------------------
(* merge_data *)

MaxUses == 2

\* line 110: how='left'
DefaultHow(how) == IF how = "default" THEN "left" ELSE how

\* line 128
\* (variant: line 128 left out)
HasBindingAlways == TRUE

HasBinding == ~(df_merge_col = None \/ external_merge_col = None)

\* the binding merge_data leaves stored: it assigns none of the three fields
\* (variant: the binding is cleared)
BindingConsumed == <<None, None, NoneT>>

BindingAfterMerge == <<df_merge_col, external_merge_col, multiple_id_delimiter>>

\* lines 134-158, with p calls of input() made and r its answer
Proceed(a, p, r) ==
    IF multiple_id_delimiter # NoneT
    THEN LET x == _expand_multiple_ids(external_df, external_merge_col,
                                       multiple_id_delimiter)
             m == pd_merge(df, x.table, df_merge_col, external_merge_col,
                           DefaultHow(a.how))
         IN  IF x.raised # NoError
             THEN Observe("merge", a, x.raised, p, r, NoneT, 0, NoneT, 0)
             ELSE Observe("merge", a, m.raised, p, r, x.table, 1, m.table, 0)
    ELSE LET m == pd_merge(df, external_df, df_merge_col, external_merge_col,
                           DefaultHow(a.how))
         IN  Observe("merge", a, m.raised, p, r, NoneT, 1, m.table, 0)

merge_data(how) ==
    LET a == [how |-> how]
    IN  /\ UNCHANGED <<df, external_df, file_path, bound, reloaded>>
        /\ df_merge_col' = BindingAfterMerge[1]
        /\ external_merge_col' = BindingAfterMerge[2]
        /\ multiple_id_delimiter' = BindingAfterMerge[3]
        /\ IF ~HasBinding
           THEN /\ Raise("merge", a, Exc("BindingMissing", None, None))
                /\ UNCHANGED uses
           ELSE /\ uses' = IF uses < MaxUses THEN uses + 1 ELSE uses
                /\ IF external_df = NoneT
                   THEN Raise("merge", a, Exc("AttributeError", None, None))
                   ELSE IF GuardFires
                   THEN \E r \in Responses :
                           IF Affirmative(r)
                           THEN Proceed(a, 1, r)
                           ELSE Observe("merge", a, Exc("MergeCanceled", None, None),
                                        1, r, NoneT, 0, NoneT, 0)
                   ELSE Proceed(a, 0, NoneT)

-----------------------------------------------------------------------------
(* The instance under any sequence of calls *)

Load == \E path \in Paths : set_file_path(path)

Preview == \E n \in Previews : preview_file(n)

Bind ==
    \E df_col \in ColNames, external_col \in ColNames, delimiter \in Delimiters :
        set_merge_columns(df_col, external_col, delimiter)

Merge == \E how \in Hows : merge_data(how)

Next == Load \/ Preview \/ Bind \/ Merge

Spec == Init /\ [][Next]_vars

-----------------------------------------------------------------------------
(* _expand_multiple_ids on every small external table *)

MaxLen == 2

MaxRows == 2

Alphabet == {"a", ",", " "}

Strings == UNION {[1..k -> Alphabet] : k \in 0..MaxLen}

\* "a,a, a" (one id after a space) and ",,," (a delimiter that overlaps itself)
LongKeys == {Txt(<<"a", ",", "a", ",", " ", "a">>), Txt(<<",", ",", ",">>)}

Keys == {Txt(s) : s \in Strings} \cup LongKeys \cup {NaN, Num(12)}

\* the rows of a table with the given keys; the other column numbers the rows
KeyedRows(keys) == [i \in DOMAIN keys |-> [id |-> keys[i], name |-> Txt(Decimal(i))]]

KeyedTables ==
    {Table(<<"id", "name">>, KeyedRows(keys)) :
        keys \in UNION {[1..n -> Keys] : n \in 0..MaxRows}}

ExpandDelimiters == {Txt(<<",">>), Txt(<<" ">>), Txt(<<",", ",">>), Txt(<<"a">>)}

\* an instance after a load and a bind with a delimiter
InitExpand ==
    /\ df = DfPlain
    /\ external_df \in KeyedTables
    /\ file_path = ScoresCsv
    /\ df_merge_col = "id"
    /\ external_merge_col = "id"
    /\ multiple_id_delimiter \in ExpandDelimiters
    /\ op = "bind"
    /\ args = [df_col |-> "id", external_col |-> "id", delimiter |-> multiple_id_delimiter]
    /\ raised = NoError
    /\ prompts = 0
    /\ response = NoneT
    /\ expanded_df = NoneT
    /\ joins = 0
    /\ merged_df = NoneT
    /\ shown = 0
    /\ bound = TRUE
    /\ uses = 0
    /\ reloaded = FALSE

Expand ==
    LET x == _expand_multiple_ids(external_df, external_merge_col, multiple_id_delimiter)
    IN  /\ op = "bind"
        /\ Observe("expand", NoneT, x.raised, 0, NoneT, x.table, 0, NoneT, 0)
        /\ UNCHANGED <<state, bound, uses, reloaded>>

NextExpand == Expand

SpecExpand == InitExpand /\ [][NextExpand]_vars

-----------------------------------------------------------------------------
(* merge_data on every small pair of tables, bound on "id" with no delimiter *)

MaxJoinRows == 2

JoinKeys == {T("1"), T("2"), NaN}

JoinKeySeqs == UNION {[1..n -> JoinKeys] : n \in 0..MaxJoinRows}

JoinPrimaries ==
    {Table(<<"id">>, [i \in DOMAIN keys |-> [id |-> keys[i]]]) : keys \in JoinKeySeqs}
    \cup {Table(<<"id", "name">>, KeyedRows(keys)) : keys \in JoinKeySeqs}

JoinExternals == {Table(<<"id", "name">>, KeyedRows(keys)) : keys \in JoinKeySeqs}

InitJoin ==
    /\ df \in JoinPrimaries
    /\ external_df \in JoinExternals
    /\ file_path = ScoresCsv
    /\ df_merge_col = "id"
    /\ external_merge_col = "id"
    /\ multiple_id_delimiter = NoneT
    /\ op = "bind"
    /\ args = [df_col |-> "id", external_col |-> "id", delimiter |-> NoneT]
    /\ raised = NoError
    /\ prompts = 0
    /\ response = NoneT
    /\ expanded_df = NoneT
    /\ joins = 0
    /\ merged_df = NoneT
    /\ shown = 0
    /\ bound = TRUE
    /\ uses = 0
    /\ reloaded = FALSE

NextJoin == Merge

SpecJoin == InitJoin /\ [][NextJoin]_vars

-----------------------------------------------------------------------------
(* Properties *)

Binding == <<df_merge_col, external_merge_col, multiple_id_delimiter>>

NoBinding == <<None, None, NoneT>>

Yes == {<<"y">>, <<"y", "e", "s">>}

\* what a merge call leaves when it stops before key expansion and the join
NothingMerged ==
    /\ expanded_df' = NoneT
    /\ joins' = 0
    /\ merged_df' = NoneT

\* C1 as written: whenever merge asks for confirmation and the answer,
\* lowercased, is neither "y" nor "yes", merge fails with MergeCanceled,
\* expands and joins nothing, returns no table, and leaves the tables and the
\* binding as they were.
C1_AsWritten ==
    [][(op' = "merge" /\ prompts' = 1 /\ Lower(response'.v) \notin Yes)
         => (raised'.kind = "MergeCanceled" /\ NothingMerged /\ state' = state)]_vars

\* C1 as amended: whenever merge asks for confirmation and the answer, with
\* leading and trailing whitespace removed and lowercased, is neither "y" nor
\* "yes", merge fails with MergeCanceled, expands and joins nothing, returns
\* no table, and leaves the tables and the binding as they were.
C1_CancelAbortsCleanly ==
    [][(op' = "merge" /\ prompts' = 1 /\ Lower(Strip(response'.v)) \notin Yes)
         => (raised'.kind = "MergeCanceled" /\ NothingMerged /\ state' = state)]_vars

C1_Witness ==
    /\ op = "merge"
    /\ prompts = 1
    /\ response = Txt(<<"n">>)
    /\ raised.kind = "MergeCanceled"
    /\ multiple_id_delimiter # NoneT

C3_BindValidation ==
    [][(op' = "bind" /\ external_df # NoneT)
         => LET absent == \/ args'.df_col \notin ColSet(df)
                          \/ args'.external_col \notin ColSet(external_df)
            IN  /\ (raised'.kind = "ColumnNotFound") <=> absent
                /\ absent => Binding' = Binding
                /\ ~absent => /\ raised' = NoError
                              /\ Binding' = <<args'.df_col, args'.external_col,
                                              args'.delimiter>>]_vars

C3_Witness ==
    /\ op = "bind"
    /\ raised = NoError
    /\ args.delimiter = NoneT
    /\ Binding = <<"extra", "gene", NoneT>>

\* C4: a merge call made when no bind has yet succeeded fails with
\* BindingMissing without asking for confirmation, expanding or joining.
C4_MergeNeedsBinding ==
    [][(op' = "merge" /\ ~bound)
         => (raised'.kind = "BindingMissing" /\ prompts' = 0 /\ NothingMerged)]_vars

C4_Witness ==
    /\ op = "merge"
    /\ ~bound
    /\ external_df # NoneT
    /\ raised.kind = "BindingMissing"

\* C5 as written: a merge call made after a merge call has used the binding,
\* with no successful bind in between, fails with BindingMissing.
C5_AsWritten ==
    [][(op' = "merge" /\ uses >= 1) => raised'.kind = "BindingMissing"]_vars

\* C5 as amended: a merge call leaves the stored binding as it was, so a merge
\* call made after a merge call has used the binding, with no successful bind
\* in between, finds it stored and does not fail with BindingMissing.
C5_BindingOutlivesMerge ==
    [][op' = "merge"
         => /\ Binding' = Binding
            /\ uses >= 1 => raised'.kind # "BindingMissing"]_vars

C5_Witness ==
    /\ op = "merge"
    /\ uses = 2
    /\ merged_df # NoneT

\* C6: a bind call made when no External Table is loaded fails with
\* ColumnNotFound, naming a table and the column, and stores no binding.
C6_AsWritten ==
    [][(op' = "bind" /\ external_df = NoneT)
         => /\ raised'.kind = "ColumnNotFound"
            /\ raised'.table \in {"current", "external"}
            /\ raised'.column \in {args'.df_col, args'.external_col}
            /\ Binding' = NoBinding]_vars

\* the non-overlapping occurrences of d in s from position i on, left to right
\* (what str.count counts): where each starts
RECURSIVE Hits(_, _, _)
Hits(s, d, i) ==
    IF i + Len(d) - 1 > Len(s) THEN <<>>
    ELSE IF \A k \in 1..Len(d) : s[i + k - 1] = d[k]
    THEN <<i>> \o Hits(s, d, i + Len(d))
    ELSE Hits(s, d, i + 1)

Occurrences(s, d) == Len(Hits(s, d, 1))

\* the k-th substring of s between occurrences of d
Piece(s, d, k) ==
    LET h == Hits(s, d, 1)
    IN  SubSeq(s, IF k = 1 THEN 1 ELSE h[k - 1] + Len(d),
                  IF k = Len(h) + 1 THEN Len(s) ELSE h[k] - 1)

\* p without its leading and trailing whitespace
Trimmed(p) ==
    LET solid == {i \in DOMAIN p : p[i] \notin Whitespace}
    IN  IF solid = {} THEN <<>>
        ELSE SubSeq(p, CHOOSE i \in solid : \A j \in solid : i <= j,
                       CHOOSE i \in solid : \A j \in solid : i >= j)

RECURSIVE RowsBefore(_, _, _)
RowsBefore(rows, d, i) ==
    IF i = 1 THEN 0
    ELSE RowsBefore(rows, d, i - 1) + Occurrences(Str(rows[i - 1].id), d) + 1

\* C7: for a non-empty delimiter, the expansion holds, for each row of the
\* External Table in order, (occurrences of the delimiter in the stringified
\* key, counted left to right without overlap, + 1) rows in split order; the
\* k-th carries the k-th substring, trimmed (possibly empty), as key and the
\* source row's values in every other column.
C7_Expansion ==
    (op = "expand" /\ multiple_id_delimiter.v # <<>>)
      => LET rows == external_df.rows
             d == multiple_id_delimiter.v
         IN  /\ raised = NoError
             /\ expanded_df.columns = external_df.columns
             /\ Len(expanded_df.rows) = RowsBefore(rows, d, Len(rows) + 1)
             /\ \A i \in DOMAIN rows :
                  \A k \in 1..(Occurrences(Str(rows[i].id), d) + 1) :
                     expanded_df.rows[RowsBefore(rows, d, i) + k] =
                        [id |-> Txt(Trimmed(Piece(Str(rows[i].id), d, k))),
                         name |-> rows[i].name]

C7_Witness ==
    /\ op = "expand"
    /\ multiple_id_delimiter = Txt(<<",">>)
    /\ Len(external_df.rows) = 2
    /\ external_df.rows[1].id = Txt(<<",", " ">>)
    /\ external_df.rows[2].id = Txt(<<"a", ",", "a", ",", " ", "a">>)
    /\ Len(expanded_df.rows) = 5
    /\ expanded_df.rows[2].id = Txt(<<>>)
    /\ expanded_df.rows[5].id = Txt(<<"a">>)

\* how often x occurs in the sequence q
Times(q, x) == Cardinality({k \in DOMAIN q : q[k] = x})

\* how often the relational join of the requested kind holds the pair x
Due(x, kind) ==
    LET P == df.rows
        E == external_df.rows
        lone(i) == \A j \in DOMAIN E : P[i][df_merge_col] # E[j][external_merge_col]
        orphan(j) == \A i \in DOMAIN P : P[i][df_merge_col] # E[j][external_merge_col]
    IN  Cardinality({ij \in (DOMAIN P) \X (DOMAIN E) :
                        /\ P[ij[1]][df_merge_col] = E[ij[2]][external_merge_col]
                        /\ x = Pair(P[ij[1]], E[ij[2]])})
        + (IF kind \in {"left", "outer"}
           THEN Cardinality({i \in DOMAIN P : lone(i) /\ x = Pair(P[i], NoRow)}) ELSE 0)
        + (IF kind \in {"right", "outer"}
           THEN Cardinality({j \in DOMAIN E : orphan(j) /\ x = Pair(NoRow, E[j])}) ELSE 0)

AllPairs ==
    {Pair(l, r) : l \in {df.rows[i] : i \in DOMAIN df.rows} \cup {NoRow},
                  r \in {external_df.rows[j] : j \in DOMAIN external_df.rows} \cup {NoRow}}

\* C8: with no delimiter bound, a merge that passes the guard returns the
\* equi-join on the bound keys of the requested kind, 'left' when none is
\* requested: each pair of a Primary row and an External row with equal keys
\* once, each unmatched Primary row once with null external fields for 'left'
\* and 'outer', each unmatched External row once with null primary fields for
\* 'right' and 'outer', and nothing else.
C8_JoinKinds ==
    (op = "merge" /\ multiple_id_delimiter = NoneT /\ raised.kind # "MergeCanceled")
      => /\ raised = NoError
         /\ joins = 1
         /\ merged_df # NoneT
         /\ \A x \in AllPairs \cup {merged_df.rows[k] : k \in DOMAIN merged_df.rows} :
               Times(merged_df.rows, x) =
                  Due(x, IF args.how = "default" THEN "left" ELSE args.how)

C8_Witness ==
    /\ op = "merge"
    /\ args.how = "default"
    /\ prompts = 1
    /\ merged_df # NoneT
    /\ Len(merged_df.rows) = 3
    /\ \E k \in DOMAIN merged_df.rows : merged_df.rows[k].r = NoRow
    /\ \E k \in DOMAIN merged_df.rows : merged_df.rows[k].r # NoRow

\* C9: no External Table is stored at first; no call changes the Primary
\* Table; a successful load stores exactly the table of the file it read; a
\* failed load and every other call, a merge with a delimiter bound included,
\* leave the stored External Table as it was.
C9_TablesFramed ==
    /\ external_df = NoneT
    /\ [][/\ df' = df
          /\ IF op' = "load" /\ raised' = NoError
             THEN external_df' = FileTable(args'.path)
             ELSE external_df' = external_df]_vars

C9_Witness ==
    /\ op = "load"
    /\ raised.kind = "UnsupportedFormat"
    /\ external_df = Genes
    /\ df = DfFull

\* C10 as written: whenever a binding is stored, an External Table is loaded,
\* the bound external key column is one of its columns and the bound primary
\* key column is a column of the Primary Table.
C10_AsWritten ==
    (df_merge_col # None /\ external_merge_col # None)
      => /\ external_df # NoneT
         /\ external_merge_col \in ColSet(external_df)
         /\ df_merge_col \in ColSet(df)

\* C10 as amended: whenever a binding is stored, an External Table is loaded
\* and the bound primary key column is a column of the Primary Table; the
\* bound external key column is a column of the stored External Table as long
\* as no load has succeeded since the bind.
C10_BindingValidUntilReload ==
    (df_merge_col # None /\ external_merge_col # None)
      => /\ external_df # NoneT
         /\ df_merge_col \in ColSet(df)
         /\ ~reloaded => external_merge_col \in ColSet(external_df)

C10_Witness ==
    /\ df_merge_col # None
    /\ reloaded
    /\ external_df = Genes
    /\ external_merge_col = "id"

====
